---------------------------- MODULE Spec2Model ----------------------------
(***************************************************************************)
(* Model of the stock-ai backend: the indicator library                    *)
(* (backend/indicators.py), the price store (backend/crud.py,              *)
(* backend/models.py) and the two prediction handlers (backend/main.py).   *)
(*                                                                         *)
(* Python floats are modelled as exact rationals <<n, d>> (d > 0, reduced);*)
(* closing prices are integers.  A pair with d = 0 is not a number:        *)
(* <<0, 0>> is Python's None, <<1, 0>> a raised ZeroDivisionError and      *)
(* <<2, 0>> a raised IndexError.                                           *)
(***************************************************************************)
EXTENDS Integers, Sequences, FiniteSets

VARIABLES
    stocks,   \* rows of table "stocks" (id, symbol)
    prices,   \* rows of table "prices", in insertion (id) order
    pc,       \* per worker thread: position inside create_price
    req,      \* per worker thread: the price_in it is handling
    resp,     \* the last response a handler sent
    closes,   \* indicator library: the series handed to the function
    out       \* indicator library: the last call and what it returned

vars == <<stocks, prices, pc, req, resp, closes, out>>

-----------------------------------------------------------------------------
(* Bounds of the model.                                                    *)

MaxLen == 4        \* longest series handed to an indicator function
MaxPeriod == 3     \* largest window / period handed to an indicator function
PrefixLen == 13    \* length of a pre-loaded price history
MaxTail == 3       \* price rows added on top of the pre-loaded history
MaxRows == 3       \* rows of table "prices" under concurrent create_price

IndVals == {-4, 0, 10, 12, 13, 15}     \* closes handed to the indicators
TailVals == {-50, 0, 90, 100, 102}     \* closes of the rows added by create_price
Shapes == {"none", "rise", "fall", "flat", "zig"}
NewestFirst == {"fall", "zig"}         \* histories that were stored newest row first
StockIds == {1, 2}
HorizonDays == {-1, 0, 1, 3}
WindowDays == {0, 2, 30}
Workers == {1, 2}

-----------------------------------------------------------------------------
(* Exact arithmetic standing for Python's float arithmetic.                *)

None == <<0, 0>>
ZeroDivisionError == <<1, 0>>
IndexError == <<2, 0>>

IsNum(x) == x[2] # 0

Abs(i) == IF i < 0 THEN -i ELSE i

RECURSIVE GCD(_, _)
GCD(a, b) == IF b = 0 THEN a ELSE GCD(b, a % b)

Norm(n, d) ==
    LET g == GCD(Abs(n), Abs(d))
        s == IF d < 0 THEN -1 ELSE 1
    IN  <<(s * n) \div g, (s * d) \div g>>

R(i) == <<i, 1>>
Frac(n, d) == Norm(n, d)

\* Common factors are divided out before multiplying, as the model's integers
\* are 32 bits wide.
RAdd(a, b) ==
    LET g == GCD(a[2], b[2])
    IN  Norm(a[1] * (b[2] \div g) + b[1] * (a[2] \div g), (a[2] \div g) * b[2])
RSub(a, b) == RAdd(a, <<-b[1], b[2]>>)
RMul(a, b) ==
    LET g == GCD(Abs(a[1]), b[2])
        h == GCD(Abs(b[1]), a[2])
    IN  Norm((a[1] \div g) * (b[1] \div h), (a[2] \div h) * (b[2] \div g))
RDiv(a, b) ==
    IF b[1] = 0 THEN ZeroDivisionError
    ELSE RMul(a, IF b[1] < 0 THEN <<-b[2], -b[1]>> ELSE <<b[2], b[1]>>)
RLt(a, b) ==
    LET g == GCD(a[2], b[2])
    IN  a[1] * (b[2] \div g) < b[1] * (a[2] \div g)
RLe(a, b) ==
    LET g == GCD(a[2], b[2])
    IN  a[1] * (b[2] \div g) <= b[1] * (a[2] \div g)

\* Python's max(a, b) and min(a, b): the first argument unless the second beats it.
PyMax(a, b) == IF RLt(a, b) THEN b ELSE a
PyMin(a, b) == IF RLt(b, a) THEN b ELSE a

Min(i, j) == IF i < j THEN i ELSE j
Max(i, j) == IF i > j THEN i ELSE j

RECURSIVE SumSeq(_)
SumSeq(s) == IF s = <<>> THEN 0 ELSE Head(s) + SumSeq(Tail(s))

\* Python sequence indexing s[i]: a negative i counts from the end.
PyInRange(s, i) == -Len(s) <= i /\ i < Len(s)
PyAt(s, i) == IF i < 0 THEN s[Len(s) + i + 1] ELSE s[i + 1]

\* Python slicing s[a:] and s[:b] (None bounds omitted).
PyClip(s, i) == IF i < 0 THEN Max(Len(s) + i, 0) ELSE Min(i, Len(s))
PySliceFrom(s, a) == SubSeq(s, PyClip(s, a) + 1, Len(s))
PySliceTo(s, b) == SubSeq(s, 1, PyClip(s, b))

-----------------------------------------------------------------------------
(* backend/indicators.py                                                   *)

calc_sma_short(values, window) ==
    IF Len(values) < window + 1 THEN None
    ELSE RDiv(R(SumSeq(PySliceFrom(values, -window))), R(window))

calc_sma(values, window) ==
    IF Len(values) < window THEN None
    ELSE RDiv(R(SumSeq(PySliceFrom(values, -window))), R(window))

calc_momentum_off(closes_, period) ==
    IF Len(closes_) < period + 1 THEN None
    ELSE IF ~PyInRange(closes_, -period) \/ ~PyInRange(closes_, -1) THEN IndexError
    ELSE LET base_price == PyAt(closes_, -period)
             last_price == PyAt(closes_, -1)
         IN  IF base_price = 0 THEN None
             ELSE RDiv(R(last_price - base_price), R(base_price))

calc_momentum_swapped(closes_, period) ==
    IF Len(closes_) < period + 1 THEN None
    ELSE IF ~PyInRange(closes_, -period - 1) \/ ~PyInRange(closes_, -1) THEN IndexError
    ELSE LET base_price == PyAt(closes_, -period - 1)
             last_price == PyAt(closes_, -1)
         IN  IF base_price = 0 THEN None
             ELSE RDiv(R(base_price - last_price), R(base_price))

calc_momentum(closes_, period) ==
    IF Len(closes_) < period + 1 THEN None
    ELSE IF ~PyInRange(closes_, -period - 1) \/ ~PyInRange(closes_, -1) THEN IndexError
    ELSE LET base_price == PyAt(closes_, -period - 1)
             last_price == PyAt(closes_, -1)
         IN  IF base_price = 0 THEN None
             ELSE RDiv(R(last_price - base_price), R(base_price))

rsi_changes(closes_) ==
    [i \in 1..(Len(closes_) - 1) |-> closes_[i + 1] - closes_[i]]

rsi_seed_gains(head) ==
    [i \in 1..Len(head) |-> IF head[i] > 0 THEN head[i] ELSE 0]

rsi_seed_losses_signed(head) ==
    [i \in 1..Len(head) |-> IF head[i] > 0 THEN 0 ELSE head[i]]

rsi_seed_losses(head) ==
    [i \in 1..Len(head) |-> IF head[i] > 0 THEN 0 ELSE -head[i]]

RECURSIVE rsi_smooth_forgetful(_, _, _)
rsi_smooth_forgetful(avg, rest, period) ==
    IF rest = <<>> THEN avg
    ELSE LET ch == Head(rest)
             gain == IF ch > 0 THEN ch ELSE 0
             loss == IF ch < 0 THEN -ch ELSE 0
             avg_gain == RDiv(RAdd(RMul(avg[1], R(period - 1)), R(gain)), R(period))
             avg_loss == RDiv(R(loss), R(period))
         IN  rsi_smooth_forgetful(<<avg_gain, avg_loss>>, Tail(rest), period)

\* The Wilder update loop over changes[period:]; avg is <<avg_gain, avg_loss>>.
RECURSIVE rsi_smooth(_, _, _)
rsi_smooth(avg, rest, period) ==
    IF rest = <<>> THEN avg
    ELSE LET ch == Head(rest)
             gain == IF ch > 0 THEN ch ELSE 0
             loss == IF ch < 0 THEN -ch ELSE 0
             avg_gain == RDiv(RAdd(RMul(avg[1], R(period - 1)), R(gain)), R(period))
             avg_loss == RDiv(RAdd(RMul(avg[2], R(period - 1)), R(loss)), R(period))
         IN  rsi_smooth(<<avg_gain, avg_loss>>, Tail(rest), period)

calc_rsi(closes_, period) ==
    IF Len(closes_) < period + 1 THEN None
    ELSE LET changes == rsi_changes(closes_)
             head == PySliceTo(changes, period)
             avg_gain0 == RDiv(R(SumSeq(rsi_seed_gains(head))), R(period))
             avg_loss0 == RDiv(R(SumSeq(rsi_seed_losses(head))), R(period))
             fin == rsi_smooth(<<avg_gain0, avg_loss0>>, PySliceFrom(changes, period), period)
             avg_gain == fin[1]
             avg_loss == fin[2]
         IN  IF avg_loss = R(0) THEN R(100)
             ELSE LET rs == RDiv(avg_gain, avg_loss)
                  IN  RSub(R(100), RDiv(R(100), RAdd(R(1), rs)))

-----------------------------------------------------------------------------
(* backend/models.py and backend/crud.py: the two tables.  A price row     *)
(* keeps the columns the handlers read (stock_id, date, close); its id is  *)
(* its position in prices.  Table "prices" declares no unique constraint   *)
(* on (stock_id, date).                                                    *)

Stock(id, symbol) == [id |-> id, symbol |-> symbol]
Price(stock_id, date, close) == [stock_id |-> stock_id, date |-> date, close |-> close]

get_stock(stock_id) == {s \in stocks : s.id = stock_id}

\* ORDER BY date DESC, by insertion; rows of one date keep their id order.
RECURSIVE insert_desc(_, _)
insert_desc(row, ordered) ==
    IF ordered = <<>> THEN <<row>>
    ELSE IF Head(ordered).date <= row.date THEN <<row>> \o ordered
    ELSE <<Head(ordered)>> \o insert_desc(row, Tail(ordered))

RECURSIVE order_by_date_desc(_)
order_by_date_desc(rows) ==
    IF rows = <<>> THEN <<>>
    ELSE insert_desc(Head(rows), order_by_date_desc(Tail(rows)))

list_prices_by_stock(stock_id, skip, limit) ==
    LET own == SelectSeq(prices, LAMBDA r : r.stock_id = stock_id)
        ordered == order_by_date_desc(own)
    IN  SubSeq(ordered, skip + 1, Min(Len(ordered), skip + limit))

\* The duplicate query of create_price: the rows of that stock on that date.
create_price_exist(price_in) ==
    {i \in 1..Len(prices) :
        prices[i].stock_id = price_in.stock_id /\ prices[i].date = price_in.date}

\* What create_price raises before it inserts ("" when it raises nothing).
create_price_raises(price_in) ==
    IF get_stock(price_in.stock_id) = {} THEN "ValueError: no such stock_id"
    ELSE IF create_price_exist(price_in) # {} THEN "ValueError: price exists for that date"
    ELSE ""

\* Python's sorted(prices, key=lambda p: p.date): stable, ascending.
RECURSIVE insert_asc(_, _)
insert_asc(row, ordered) ==
    IF ordered = <<>> THEN <<row>>
    ELSE IF row.date <= Head(ordered).date THEN <<row>> \o ordered
    ELSE <<Head(ordered)>> \o insert_asc(row, Tail(ordered))

RECURSIVE sorted_by_date(_)
sorted_by_date(rows) ==
    IF rows = <<>> THEN <<>>
    ELSE insert_asc(Head(rows), sorted_by_date(Tail(rows)))

-----------------------------------------------------------------------------
(* backend/main.py: responses.                                             *)

NoResp ==
    [op |-> "none", stock_id |-> 0, horizon_days |-> 0, window_days |-> 0,
     status |-> 0, detail |-> "", latest_date |-> 0, latest_close |-> 0,
     prob_up |-> None, expected_return |-> None, model_version |-> "",
     ma_5 |-> None, ma_20 |-> None, rsi_14 |-> None, momentum_3d |-> None]

\* An HTTPException(status_code, detail), or an uncaught exception (500).
HTTPException(op, stock_id, horizon_days, window_days, status_code, detail) ==
    [NoResp EXCEPT !.op = op, !.stock_id = stock_id, !.horizon_days = horizon_days,
                   !.window_days = window_days, !.status = status_code, !.detail = detail]

predict_dummy_too_few_off(n, horizon_days) == n < horizon_days

predict_dummy_too_few(n, horizon_days) == n < horizon_days + 1

summary_too_few(n, horizon_days) == n < horizon_days + 1

recent_return_of(base_price, latest_close) ==
    IF base_price <= 0 THEN R(0)
    ELSE RDiv(R(latest_close - base_price), R(base_price))

predict_dummy_prob_up_percent(recent_return, rsi_14, mom_3d) ==
    LET p0 == Frac(1, 2)
        p1 == RAdd(p0, PyMax(Frac(-15, 100), PyMin(Frac(15, 100), RMul(recent_return, R(2)))))
        p2 == IF IsNum(rsi_14)
              THEN IF RLt(rsi_14, R(35)) THEN RAdd(p1, Frac(5, 100))
                   ELSE IF RLt(R(70), rsi_14) THEN RSub(p1, Frac(5, 100))
                   ELSE p1
              ELSE p1
        p3 == IF IsNum(mom_3d)
              THEN IF RLt(R(0), mom_3d) THEN RAdd(p2, Frac(3, 100))
                   ELSE IF RLt(mom_3d, R(0)) THEN RSub(p2, Frac(3, 100))
                   ELSE p2
              ELSE p2
    IN  PyMax(R(5), PyMin(R(95), p3))

predict_dummy_prob_up_rsi_flipped(recent_return, rsi_14, mom_3d) ==
    LET p0 == Frac(1, 2)
        p1 == RAdd(p0, PyMax(Frac(-15, 100), PyMin(Frac(15, 100), RMul(recent_return, R(2)))))
        p2 == IF IsNum(rsi_14)
              THEN IF RLt(rsi_14, R(35)) THEN RSub(p1, Frac(5, 100))
                   ELSE IF RLt(R(70), rsi_14) THEN RAdd(p1, Frac(5, 100))
                   ELSE p1
              ELSE p1
        p3 == IF IsNum(mom_3d)
              THEN IF RLt(R(0), mom_3d) THEN RAdd(p2, Frac(3, 100))
                   ELSE IF RLt(mom_3d, R(0)) THEN RSub(p2, Frac(3, 100))
                   ELSE p2
              ELSE p2
    IN  PyMax(Frac(5, 100), PyMin(Frac(95, 100), p3))

predict_dummy_prob_up_raw_uncapped(recent_return, rsi_14, mom_3d) ==
    LET p0 == Frac(1, 2)
        p1 == RAdd(p0, RMul(recent_return, R(2)))
        p2 == IF IsNum(rsi_14)
              THEN IF RLt(rsi_14, R(35)) THEN RAdd(p1, Frac(5, 100))
                   ELSE IF RLt(R(70), rsi_14) THEN RSub(p1, Frac(5, 100))
                   ELSE p1
              ELSE p1
        p3 == IF IsNum(mom_3d)
              THEN IF RLt(R(0), mom_3d) THEN RAdd(p2, Frac(3, 100))
                   ELSE IF RLt(mom_3d, R(0)) THEN RSub(p2, Frac(3, 100))
                   ELSE p2
              ELSE p2
    IN  p3

predict_dummy_prob_up_raw(recent_return, rsi_14, mom_3d) ==
    LET p0 == Frac(1, 2)
        p1 == RAdd(p0, PyMax(Frac(-15, 100), PyMin(Frac(15, 100), RMul(recent_return, R(2)))))
        p2 == IF IsNum(rsi_14)
              THEN IF RLt(rsi_14, R(35)) THEN RAdd(p1, Frac(5, 100))
                   ELSE IF RLt(R(70), rsi_14) THEN RSub(p1, Frac(5, 100))
                   ELSE p1
              ELSE p1
        p3 == IF IsNum(mom_3d)
              THEN IF RLt(R(0), mom_3d) THEN RAdd(p2, Frac(3, 100))
                   ELSE IF RLt(mom_3d, R(0)) THEN RSub(p2, Frac(3, 100))
                   ELSE p2
              ELSE p2
    IN  p3

predict_dummy_prob_up(recent_return, rsi_14, mom_3d) ==
    PyMax(Frac(5, 100), PyMin(Frac(95, 100), predict_dummy_prob_up_raw(recent_return, rsi_14, mom_3d)))

summary_prob_up_raw(recent_return, rsi_14, momentum_3d) ==
    LET p0 == Frac(1, 2)
        p1 == RAdd(p0, PyMax(Frac(-15, 100), PyMin(Frac(15, 100), RMul(recent_return, R(2)))))
        p2 == IF IsNum(rsi_14)
              THEN IF RLt(rsi_14, R(35)) THEN RAdd(p1, Frac(5, 100))
                   ELSE IF RLt(R(70), rsi_14) THEN RSub(p1, Frac(5, 100))
                   ELSE p1
              ELSE p1
        p3 == IF IsNum(momentum_3d)
              THEN IF RLt(R(0), momentum_3d) THEN RAdd(p2, Frac(3, 100))
                   ELSE IF RLt(momentum_3d, R(0)) THEN RSub(p2, Frac(3, 100))
                   ELSE p2
              ELSE p2
    IN  p3

summary_prob_up(recent_return, rsi_14, momentum_3d) ==
    PyMax(Frac(5, 100), PyMin(Frac(95, 100), summary_prob_up_raw(recent_return, rsi_14, momentum_3d)))

closes_of(prices_sorted) == [i \in 1..Len(prices_sorted) |-> prices_sorted[i].close]

predict_dummy(stock_id, horizon_days, window_days) ==
    IF get_stock(stock_id) = {}
    THEN HTTPException("predict_dummy", stock_id, horizon_days, window_days, 404, "stock not found")
    ELSE IF horizon_days < 1
    THEN HTTPException("predict_dummy", stock_id, horizon_days, window_days, 400, "horizon_days < 1")
    ELSE LET prices_ == list_prices_by_stock(stock_id, 0, window_days) IN
    IF predict_dummy_too_few(Len(prices_), horizon_days)
    THEN HTTPException("predict_dummy", stock_id, horizon_days, window_days, 400, "insufficient data")
    ELSE LET prices_sorted == sorted_by_date(prices_)
             closes_ == closes_of(prices_sorted)
         IN
    IF ~PyInRange(prices_sorted, -1) \/ ~PyInRange(prices_sorted, -(horizon_days + 1))
    THEN HTTPException("predict_dummy", stock_id, horizon_days, window_days, 500, "IndexError")
    ELSE LET latest == PyAt(prices_sorted, -1)
             base_price == PyAt(prices_sorted, -(horizon_days + 1)).close
             recent_return == recent_return_of(base_price, latest.close)
             rsi_14 == calc_rsi(closes_, 14)
             mom_3d == calc_momentum(closes_, 3)
         IN  [NoResp EXCEPT !.op = "predict_dummy", !.stock_id = stock_id,
                            !.horizon_days = horizon_days, !.window_days = window_days,
                            !.status = 200,
                            !.latest_date = latest.date, !.latest_close = latest.close,
                            !.prob_up = predict_dummy_prob_up(recent_return, rsi_14, mom_3d),
                            !.expected_return = RMul(recent_return, R(100)),
                            !.model_version = "dummy_v1"]

get_stock_full_summary(stock_id, horizon_days, window_days) ==
    IF get_stock(stock_id) = {}
    THEN HTTPException("get_stock_full_summary", stock_id, horizon_days, window_days, 404, "stock not found")
    ELSE LET prices_ == list_prices_by_stock(stock_id, 0, window_days) IN
    IF summary_too_few(Len(prices_), horizon_days)
    THEN HTTPException("get_stock_full_summary", stock_id, horizon_days, window_days, 400, "insufficient data")
    ELSE LET prices_sorted == sorted_by_date(prices_)
             closes_ == closes_of(prices_sorted)
         IN
    IF ~PyInRange(prices_sorted, -1) \/ ~PyInRange(prices_sorted, -(horizon_days + 1))
    THEN HTTPException("get_stock_full_summary", stock_id, horizon_days, window_days, 500, "IndexError")
    ELSE LET latest == PyAt(prices_sorted, -1)
             rsi_14 == calc_rsi(closes_, 14)
             momentum_3d == calc_momentum(closes_, 3)
             base_price == PyAt(prices_sorted, -(horizon_days + 1)).close
             recent_return == recent_return_of(base_price, latest.close)
         IN  [NoResp EXCEPT !.op = "get_stock_full_summary", !.stock_id = stock_id,
                            !.horizon_days = horizon_days, !.window_days = window_days,
                            !.status = 200,
                            !.latest_date = latest.date, !.latest_close = latest.close,
                            !.ma_5 = calc_sma(closes_, 5), !.ma_20 = calc_sma(closes_, 20),
                            !.rsi_14 = rsi_14, !.momentum_3d = momentum_3d,
                            !.prob_up = summary_prob_up(recent_return, rsi_14, momentum_3d),
                            !.expected_return = RMul(recent_return, R(100)),
                            !.model_version = "dummy_v1"]


-----------------------------------------------------------------------------
(* Initial states.                                                         *)

NoReq == Price(0, 0, 0)
NoOut == [fn |-> "none", arg |-> 0, val |-> None]

StoreDates == {1, 2}
StoreCloses == {100, 102}
Symbols == {"A", "B"}

\* A pre-loaded daily history of stock 1 on dates 1..PrefixLen.
ShapeClose(shape, i) ==
    CASE shape = "rise" -> 74 + 2 * i
      [] shape = "fall" -> 120 - 2 * i
      [] shape = "flat" -> 100
      [] OTHER -> IF i % 2 = 0 THEN 104 ELSE 100

History(shape) ==
    IF shape = "none" THEN <<>>
    ELSE [i \in 1..PrefixLen |->
            LET d == IF shape \in NewestFirst THEN PrefixLen + 1 - i ELSE i
            IN  Price(1, d, ShapeClose(shape, d))]

Series == UNION {[1..n -> IndVals] : n \in 0..MaxLen}

\* The indicator library alone: a series, and the three functions applied to it.
InitInd ==
    /\ stocks = {}
    /\ prices = <<>>
    /\ pc = [w \in Workers |-> "idle"]
    /\ req = [w \in Workers |-> NoReq]
    /\ resp = NoResp
    /\ closes \in Series
    /\ out = NoOut

\* An empty database, written by concurrent requests.
InitStore ==
    /\ stocks = {}
    /\ prices = <<>>
    /\ pc = [w \in Workers |-> "idle"]
    /\ req = [w \in Workers |-> NoReq]
    /\ resp = NoResp
    /\ closes = <<>>
    /\ out = NoOut

\* A database holding stock 1 and a history of it, read by the prediction handlers.
Init ==
    /\ stocks = {Stock(1, "A")}
    /\ \E shape \in Shapes : prices = History(shape)
    /\ pc = [w \in Workers |-> "idle"]
    /\ req = [w \in Workers |-> NoReq]
    /\ resp = NoResp
    /\ closes = <<>>
    /\ out = NoOut

-----------------------------------------------------------------------------
(* Actions: the indicator functions.                                       *)

CalcSma ==
    /\ \E window \in 1..MaxPeriod :
           out' = [fn |-> "calc_sma", arg |-> window, val |-> calc_sma(closes, window)]
    /\ UNCHANGED <<stocks, prices, pc, req, resp, closes>>

CalcMomentum ==
    /\ \E period \in 0..MaxPeriod :
           out' = [fn |-> "calc_momentum", arg |-> period, val |-> calc_momentum(closes, period)]
    /\ UNCHANGED <<stocks, prices, pc, req, resp, closes>>

CalcRsi ==
    /\ \E period \in 1..MaxPeriod :
           out' = [fn |-> "calc_rsi", arg |-> period, val |-> calc_rsi(closes, period)]
    /\ UNCHANGED <<stocks, prices, pc, req, resp, closes>>

(* Actions: the handlers of main.py.  In Spec one client sends its         *)
(* requests one after the other: a handler runs once the client has read   *)
(* the previous response.                                                  *)

ReadResponse ==
    /\ resp # NoResp
    /\ resp' = NoResp
    /\ UNCHANGED <<stocks, prices, pc, req, closes, out>>

PredictDummy ==
    /\ resp = NoResp
    /\ \E stock_id \in StockIds, horizon_days \in HorizonDays, window_days \in WindowDays :
           resp' = predict_dummy(stock_id, horizon_days, window_days)
    /\ UNCHANGED <<stocks, prices, pc, req, closes, out>>

GetStockFullSummary ==
    /\ resp = NoResp
    /\ \E stock_id \in StockIds, horizon_days \in HorizonDays, window_days \in WindowDays :
           resp' = get_stock_full_summary(stock_id, horizon_days, window_days)
    /\ UNCHANGED <<stocks, prices, pc, req, closes, out>>

CreatedResp(price_in) ==
    [NoResp EXCEPT !.op = "create_price", !.stock_id = price_in.stock_id, !.status = 200,
                   !.latest_date = price_in.date, !.latest_close = price_in.close]

FailedResp(price_in, error) ==
    [NoResp EXCEPT !.op = "create_price", !.stock_id = price_in.stock_id, !.status = 400,
                   !.detail = error, !.latest_date = price_in.date,
                   !.latest_close = price_in.close]

LastDate == IF prices = <<>> THEN 0 ELSE order_by_date_desc(prices)[1].date

\* create_price handled from start to end with no other request in between;
\* the request is for the day after the last stored one, or for that day again.
CreatePrice ==
    /\ resp = NoResp
    /\ Len(prices) < MaxTail \/ (PrefixLen <= Len(prices) /\ Len(prices) < PrefixLen + MaxTail)
    /\ \E stock_id \in StockIds, date \in {Max(LastDate, 1), LastDate + 1}, close \in TailVals :
           LET price_in == Price(stock_id, date, close)
               error == create_price_raises(price_in)
           IN  IF error # ""
               THEN /\ resp' = FailedResp(price_in, error)
                    /\ UNCHANGED prices
               ELSE /\ prices' = Append(prices, price_in)
                    /\ resp' = CreatedResp(price_in)
    /\ UNCHANGED <<stocks, pc, req, closes, out>>

\* create_stock: the symbol must be new (crud.py) ...
CreateStock ==
    /\ \E symbol \in Symbols :
           IF \E s \in stocks : s.symbol = symbol
           THEN /\ resp' = [NoResp EXCEPT !.op = "create_stock", !.status = 400,
                                          !.detail = "ValueError: Symbol already exists"]
                /\ UNCHANGED stocks
           ELSE /\ stocks' = stocks \cup {Stock(Cardinality(stocks) + 1, symbol)}
                /\ resp' = [NoResp EXCEPT !.op = "create_stock", !.status = 200,
                                          !.stock_id = Cardinality(stocks) + 1]
    /\ UNCHANGED <<prices, pc, req, closes, out>>

\* create_price in a worker thread, first half: the stock query and the
\* duplicate query.  The session holds no lock between this and the insert.
CreatePriceCheck(w) ==
    /\ pc[w] = "idle"
    /\ Len(prices) + Cardinality({v \in Workers : pc[v] = "insert"}) < MaxRows
    /\ \E stock_id \in StockIds, date \in StoreDates, close \in StoreCloses :
           LET price_in == Price(stock_id, date, close)
               error == create_price_raises(price_in)
           IN  IF error # ""
               THEN /\ resp' = FailedResp(price_in, error)
                    /\ UNCHANGED <<pc, req>>
               ELSE /\ pc' = [pc EXCEPT ![w] = "insert"]
                    /\ req' = [req EXCEPT ![w] = price_in]
                    /\ UNCHANGED resp
    /\ UNCHANGED <<stocks, prices, closes, out>>

\* create_price, second half: db.add, db.commit, and the response.
CreatePriceInsert(w) ==
    /\ pc[w] = "insert"
    /\ prices' = Append(prices, req[w])
    /\ resp' = CreatedResp(req[w])
    /\ pc' = [pc EXCEPT ![w] = "idle"]
    /\ req' = [req EXCEPT ![w] = NoReq]
    /\ UNCHANGED <<stocks, closes, out>>

-----------------------------------------------------------------------------
(* Specifications.                                                         *)

NextInd == CalcSma \/ CalcMomentum \/ CalcRsi
SpecInd == InitInd /\ [][NextInd]_vars

NextStore == CreateStock \/ \E w \in Workers : CreatePriceCheck(w) \/ CreatePriceInsert(w)
SpecStore == InitStore /\ [][NextStore]_vars

Next == PredictDummy \/ GetStockFullSummary \/ CreatePrice \/ ReadResponse
Spec == Init /\ [][Next]_vars


-----------------------------------------------------------------------------
(* Properties of the indicator library (checked under SpecInd).            *)

N == Len(closes)

RECURSIVE SumRange(_, _, _)
SumRange(s, lo, hi) == IF lo > hi THEN 0 ELSE s[lo] + SumRange(s, lo + 1, hi)

StrictlyIncreasing(s) == \A i \in 1..(Len(s) - 1) : s[i] < s[i + 1]

\* C2 as claimed: with len(closes) >= period + 1 (period a positive integer),
\* calc_rsi returns a number r with 0 < r <= 100.
C2_RsiAboveZero ==
    (out.fn = "calc_rsi" /\ N >= out.arg + 1)
        => /\ IsNum(out.val)
           /\ RLt(R(0), out.val)
           /\ RLe(out.val, R(100))

\* C2 as amended: with len(closes) >= period + 1 (period a positive integer),
\* calc_rsi returns a number r with 0 <= r <= 100 (0 included: it is returned
\* when the smoothed gain is 0 and the smoothed loss is not).
C2_RsiRange ==
    (out.fn = "calc_rsi" /\ N >= out.arg + 1)
        => /\ IsNum(out.val)
           /\ RLe(R(0), out.val)
           /\ RLe(out.val, R(100))

\* C2 witness: calc_rsi has returned 0 for a falling series that is longer
\* than period + 1, so that the smoothing loop ran.
C2_Witness ==
    /\ out.fn = "calc_rsi"
    /\ N > out.arg + 1
    /\ out.val = R(0)

\* C5: calc_momentum(closes, p) returns None iff len(closes) < p + 1 or the
\* reference price closes[len-p-1] is 0; otherwise it returns
\* (closes[-1] - closes[len-p-1]) / closes[len-p-1], and it never raises.
C5_Momentum ==
    /\ calc_momentum(<<10, 10, 10, 12>>, 3) = Frac(2, 10)
    /\ out.fn = "calc_momentum" =>
          LET p == out.arg
              unavailable == N < p + 1 \/ closes[N - p] = 0
          IN  /\ out.val = None <=> unavailable
              /\ ~unavailable =>
                    /\ IsNum(out.val)
                    /\ out.val[1] * closes[N - p] = (closes[N] - closes[N - p]) * out.val[2]

\* C5 witness: the spec's example, Momentum([10,10,10,12], 3) = 0.2.
C5_Witness ==
    /\ out.fn = "calc_momentum"
    /\ out.arg = 3
    /\ closes = <<10, 10, 10, 12>>
    /\ out.val = Frac(1, 5)

\* C6: for a positive window w, calc_sma(values, w) returns None iff
\* len(values) < w; otherwise the arithmetic mean of exactly the last w elements.
C6_Sma ==
    /\ calc_sma(<<1, 2, 3, 4, 5>>, 3) = R(4)
    /\ out.fn = "calc_sma" =>
          LET w == out.arg
          IN  /\ out.val = None <=> N < w
              /\ N >= w =>
                    /\ IsNum(out.val)
                    /\ out.val[1] * w = SumRange(closes, N - w + 1, N) * out.val[2]

\* C6 witness: a mean over the last 3 of 4 values that differs from the mean
\* of all 4 and from the mean of the first 3.
C6_Witness ==
    /\ out.fn = "calc_sma"
    /\ out.arg = 3
    /\ closes = <<10, 12, 13, 15>>
    /\ out.val = Frac(40, 3)

\* C7 as claimed: for a strictly increasing series of at least 4 closes,
\* calc_momentum(closes, 3) is available and > 0.
C7_IncreasingMomentumPositive ==
    (out.fn = "calc_momentum" /\ out.arg = 3 /\ N >= 4 /\ StrictlyIncreasing(closes))
        => IsNum(out.val) /\ RLt(R(0), out.val)

\* C7 as amended: for a strictly increasing series of at least 4 closes whose
\* reference close closes[len-4] is positive, calc_momentum(closes, 3) is
\* available and > 0.
C7_IncreasingPositiveBase ==
    (out.fn = "calc_momentum" /\ out.arg = 3 /\ N >= 4 /\ StrictlyIncreasing(closes)
        /\ closes[N - 3] > 0)
        => IsNum(out.val) /\ RLt(R(0), out.val)

\* C7 witness: a strictly increasing series of positive closes, momentum 1/2.
C7_Witness ==
    /\ out.fn = "calc_momentum"
    /\ out.arg = 3
    /\ N >= 4
    /\ StrictlyIncreasing(closes)
    /\ closes[N - 3] > 0
    /\ out.val = Frac(1, 2)


NoLoss(s) == \A i \in 1..(Len(s) - 1) : s[i + 1] - s[i] >= 0

\* C11 as claimed: with len(closes) >= period + 1 (period a positive integer),
\* calc_rsi returns exactly 100 if and only if no successive difference of
\* the whole series is negative.
C11_HundredIffNoLoss ==
    (out.fn = "calc_rsi" /\ N >= out.arg + 1)
        => (out.val = R(100) <=> NoLoss(closes))

\* C11 as amended: for a period of at least 2, calc_rsi returns exactly 100
\* if and only if no successive difference of the whole series is negative;
\* with period 1 the update keeps nothing of the previous average, and
\* calc_rsi returns exactly 100 if and only if the last difference is not
\* negative.
C11_HundredIffNoLossPeriod2 ==
    (out.fn = "calc_rsi" /\ N >= out.arg + 1)
        => /\ out.arg >= 2 => (out.val = R(100) <=> NoLoss(closes))
           /\ out.arg = 1 => (out.val = R(100) <=> closes[N] - closes[N - 1] >= 0)

\* C11 witness: period 2, a loss inside the seed window followed by a gain in
\* the smoothing step, and an RSI below 100.
C11_Witness ==
    /\ out.fn = "calc_rsi"
    /\ out.arg = 2
    /\ N = 4
    /\ closes[2] < closes[1]
    /\ closes[3] >= closes[2]
    /\ closes[4] > closes[3]
    /\ IsNum(out.val)
    /\ RLt(R(0), out.val)
    /\ RLt(out.val, R(100))

-----------------------------------------------------------------------------
(* Properties of the prediction handlers (checked under Spec, where the    *)
(* store holds one row per stock and date).                                *)

PredictionOps == {"predict_dummy", "get_stock_full_summary"}

Predicted == resp.op \in PredictionOps /\ resp.status = 200

\* The series a prediction request is answered from, taken from the table:
\* the window_days latest dates of the stock, oldest first.
StockRows(stock_id) == {i \in 1..Len(prices) : prices[i].stock_id = stock_id}
StockDates(stock_id) == {prices[i].date : i \in StockRows(stock_id)}
CloseOn(stock_id, d) ==
    prices[CHOOSE i \in StockRows(stock_id) : prices[i].date = d].close
\* The closes on the k latest dates of ds that are <= d, oldest first.
RECURSIVE ClosesUpTo(_, _, _, _)
ClosesUpTo(stock_id, ds, d, k) ==
    IF k <= 0 \/ ds = {} THEN <<>>
    ELSE IF d \in ds
         THEN Append(ClosesUpTo(stock_id, ds \ {d}, d - 1, k - 1), CloseOn(stock_id, d))
         ELSE ClosesUpTo(stock_id, ds, d - 1, k)
RecentCloses(stock_id, window_days) ==
    LET ds == StockDates(stock_id)
    IN  IF ds = {} THEN <<>>
        ELSE ClosesUpTo(stock_id, ds, CHOOSE d \in ds : \A e \in ds : e <= d, window_days)

Clamp(x, lo, hi) == IF RLt(x, lo) THEN lo ELSE IF RLt(hi, x) THEN hi ELSE x

\* C1: every successful answer of predict_dummy or get_stock_full_summary
\* carries a prob_up with 0.05 <= prob_up <= 0.95.
C1_ProbUpBounded ==
    Predicted =>
        /\ IsNum(resp.prob_up)
        /\ RLe(Frac(5, 100), resp.prob_up)
        /\ RLe(resp.prob_up, Frac(95, 100))

\* C1 witness: a successful prediction over a history long enough for RSI(14),
\* with the return adjustment at its cap and both indicator adjustments added.
C1_Witness ==
    /\ Predicted
    /\ resp.op = "predict_dummy"
    /\ Len(prices) >= 15
    /\ resp.prob_up = Frac(73, 100)

\* C3 as claimed: every successful prediction of either handler has
\* horizon_days >= 1 (a request with horizon_days < 1 is rejected).
C3_HorizonAtLeastOne ==
    Predicted => resp.horizon_days >= 1

\* C4: for an existing stock and horizon_days >= 1 both handlers answer
\* "insufficient data" exactly when fewer than horizon_days + 1 price points
\* were fetched (the window_days latest rows of the stock), and otherwise
\* answer with a result (nothing is raised, the base close exists).
C4_InsufficientData ==
    (resp.op \in PredictionOps /\ get_stock(resp.stock_id) # {} /\ resp.horizon_days >= 1)
        => LET fetched == Min(Cardinality(StockRows(resp.stock_id)), resp.window_days)
           IN  IF fetched < resp.horizon_days + 1
               THEN resp.status = 400 /\ resp.detail = "insufficient data"
               ELSE resp.status = 200

\* C4 witness: a stock with a long history, asked with a window shorter than
\* the horizon needs, is answered "insufficient data"; and one row less than
\* needed is too.
C4_Witness ==
    /\ resp.op = "get_stock_full_summary"
    /\ Cardinality(StockRows(resp.stock_id)) >= PrefixLen
    /\ resp.horizon_days = 3
    /\ resp.window_days = 2
    /\ resp.status = 400
    /\ resp.detail = "insufficient data"

SameOutcome(a, b) ==
    /\ (a.status = 200) <=> (b.status = 200)
    /\ a.status = 200 =>
          /\ a.prob_up = b.prob_up
          /\ a.expected_return = b.expected_return
          /\ a.latest_date = b.latest_date
          /\ a.latest_close = b.latest_close
          /\ a.horizon_days = b.horizon_days
          /\ a.model_version = b.model_version

\* C8 as claimed: for the same store, stock, horizon_days and window_days the
\* two handlers both fail or both succeed, and on success return the same
\* prob_up, expected_return, latest_date, latest_close, horizon_days and
\* model_version.
C8_SameFunction ==
    /\ resp.op = "predict_dummy" =>
          SameOutcome(resp, get_stock_full_summary(resp.stock_id, resp.horizon_days, resp.window_days))
    /\ resp.op = "get_stock_full_summary" =>
          SameOutcome(predict_dummy(resp.stock_id, resp.horizon_days, resp.window_days), resp)

ExpectedReturn(cl, horizon_days) ==
    LET base == PyAt(cl, -(horizon_days + 1))
    IN  IF base <= 0 THEN R(0) ELSE Frac(cl[Len(cl)] - base, base)

RsiAdj(cl) ==
    LET rsi == calc_rsi(cl, 14)
    IN  IF IsNum(rsi) /\ RLt(rsi, R(35)) THEN Frac(5, 100)
        ELSE IF IsNum(rsi) /\ RLt(R(70), rsi) THEN Frac(-5, 100)
        ELSE R(0)

MomAdj(cl) ==
    LET mom == calc_momentum(cl, 3)
    IN  IF IsNum(mom) /\ RLt(R(0), mom) THEN Frac(3, 100)
        ELSE IF IsNum(mom) /\ RLt(mom, R(0)) THEN Frac(-3, 100)
        ELSE R(0)

\* C10: a successful prediction has, with closes oldest first,
\* base = closes[-(horizon_days+1)], recent_return = 0 if base <= 0 else
\* (latest_close - base)/base,
\* prob_up = clamp(0.5 + clamp(2*recent_return, -0.15, 0.15) + rsi_adj + mom_adj,
\* 0.05, 0.95) with rsi_adj = +0.05 / -0.05 for RSI(14) < 35 / > 70 and
\* mom_adj = +0.03 / -0.03 for Momentum(3) > 0 / < 0 (0 when unavailable),
\* and expected_return = 100 * recent_return.
C10_Formula ==
    Predicted =>
        LET cl == RecentCloses(resp.stock_id, resp.window_days)
            rr == ExpectedReturn(cl, resp.horizon_days)
            raw == RAdd(RAdd(RAdd(Frac(1, 2),
                                  Clamp(RMul(R(2), rr), Frac(-15, 100), Frac(15, 100))),
                             RsiAdj(cl)),
                        MomAdj(cl))
        IN  /\ resp.latest_close = cl[Len(cl)]
            /\ resp.prob_up = Clamp(raw, Frac(5, 100), Frac(95, 100))
            /\ resp.expected_return = RMul(rr, R(100))

\* C10 witness: predict_dummy answered over 15 or more closes with an oversold
\* RSI(14), a rising 3-day momentum and a return inside the +-0.15 cap.
C10_Witness ==
    /\ Predicted
    /\ resp.op = "predict_dummy"
    /\ resp.horizon_days = 1
    /\ LET cl == RecentCloses(resp.stock_id, resp.window_days)
       IN  /\ Len(cl) >= 15
           /\ RsiAdj(cl) = Frac(5, 100)
           /\ MomAdj(cl) = Frac(3, 100)
           /\ ExpectedReturn(cl, 1) = Frac(2, 100)
    /\ resp.prob_up = Frac(62, 100)

\* C12: in every successful prediction the un-clamped sum 0.5 + return
\* adjustment + RSI adjustment + momentum adjustment lies in [0.27, 0.73], the
\* final clamp to [0.05, 0.95] leaves it unchanged (prob_up is that sum), and
\* prob_up is neither 0.05 nor 0.95.
C12_ClampIdle ==
    Predicted =>
        LET cl == RecentCloses(resp.stock_id, resp.window_days)
            rr == ExpectedReturn(cl, resp.horizon_days)
            rsi == calc_rsi(cl, 14)
            mom == calc_momentum(cl, 3)
            raw == IF resp.op = "predict_dummy"
                   THEN predict_dummy_prob_up_raw(rr, rsi, mom)
                   ELSE summary_prob_up_raw(rr, rsi, mom)
        IN  /\ RLe(Frac(27, 100), raw)
            /\ RLe(raw, Frac(73, 100))
            /\ resp.prob_up = raw
            /\ resp.prob_up \notin {Frac(5, 100), Frac(95, 100)}


\* C12 witness: get_stock_full_summary answered with the sum at its lower end:
\* a return below the -0.15 cap, an overbought RSI(14) and a falling 3-day
\* momentum give prob_up = 0.27, untouched by the final clamp.
C12_Witness ==
    /\ Predicted
    /\ resp.op = "get_stock_full_summary"
    /\ LET cl == RecentCloses(resp.stock_id, resp.window_days)
       IN  /\ RLt(RMul(R(2), ExpectedReturn(cl, resp.horizon_days)), Frac(-15, 100))
           /\ RsiAdj(cl) = Frac(-5, 100)
           /\ MomAdj(cl) = Frac(-3, 100)
    /\ resp.prob_up = Frac(27, 100)

-----------------------------------------------------------------------------
(* Properties of the price store under concurrent requests (SpecStore).    *)

\* C9 as claimed: whatever create_price requests were handled, also
\* concurrently, the table holds at most one row per (stock_id, date).
C9_OneRowPerDate ==
    \A i, j \in 1..Len(prices) :
        (prices[i].stock_id = prices[j].stock_id /\ prices[i].date = prices[j].date)
            => i = j


=============================================================================
